---- MODULE Spec2Model ----
(***************************************************************************)
(* Poll-and-paginate engine of the Firecrawl SDK.                          *)
(*                                                                         *)
(* One polling session (FirecrawlApp::monitor_batch_scrape_status or       *)
(* FirecrawlApp::monitor_crawl_status) against a remote service whose      *)
(* answers are chosen nondeterministically.  Every await point of the      *)
(* code is a value of pc; the code between two await points is one action. *)
(***************************************************************************)
EXTENDS Integers, Sequences, FiniteSets, TLC

\* Bound on the number of HTTP GETs one session may issue.
MaxChecks == 4

\* Option::None for cursors, keys and ids.
None == "none"

\* A field the typed value does not have.
Absent == "absent"

\* Continuation cursors the remote service may hand out.
Cursors == {"c1", "c2"}

\* Job ids the remote service may hand out.
JobIds == {"job-1", "job-2"}

\* Pages of documents a response may carry (documents are opaque values).
Pages == {<<>>, <<1>>, <<1, 2>>}

\* Values of the "status" field on the wire.
WireStatuses == {"scraping", "completed", "failed", "cancelled"}

\* Values of the "success" field on the wire.
WireFlags == {"true", "false"}

\* Variants of BatchScrapeStatusTypes.
BatchScrapeStatusTypes == {"scraping", "completed", "failed"}

\* Variants of CrawlStatusTypes.
CrawlStatusTypes == {"scraping", "completed", "failed", "cancelled"}

\* A 2xx answer carrying a status snapshot.
SnapshotResponses ==
  [sent : {TRUE}, code : {200}, body : {"snapshot"},
   status : WireStatuses, next : Cursors \cup {None}, data : Pages,
   success : WireFlags, error : {""}, id : {None}]

\* An answer without snapshot.
Bare(sent, code, body, error) ==
  [sent |-> sent, code |-> code, body |-> body, status |-> "", next |-> None,
   data |-> <<>>, success |-> "false", error |-> error, id |-> None]

\* Answers that carry no snapshot: the request could not be sent, a non-2xx
\* answer with a structured error body, a non-2xx answer with an unparseable
\* body, a 2xx answer whose body does not decode, a 2xx answer whose body
\* could not be read.
FailureResponses ==
  { Bare(FALSE, 0, "garbage", ""),
    Bare(TRUE, 500, "api_error", "e1"),
    Bare(TRUE, 500, "garbage", ""),
    Bare(TRUE, 200, "garbage", ""),
    Bare(TRUE, 200, "unreadable", "") }

WireResponses == SnapshotResponses \cup FailureResponses

\* A 2xx answer to a submit POST: {success, id, url}.
HandleResponses ==
  [sent : {TRUE}, code : {200}, body : {"handle"}, status : {""},
   next : {None}, data : {<<>>}, success : WireFlags, error : {""},
   id : JobIds]

SubmitResponses == HandleResponses \cup FailureResponses

\* The answers of a remote service that hands out one cursor, no Cancelled
\* state and at most one document per page.
SmallResponses ==
  [sent : {TRUE}, code : {200}, body : {"snapshot"},
   status : BatchScrapeStatusTypes, next : {None, "c1"}, data : {<<>>, <<1>>},
   success : {"true"}, error : {""}, id : {None}]
  \cup {Bare(FALSE, 0, "garbage", "")}

\* The empty snapshot, used where no snapshot is held.
NoSnapshot == [status |-> "", next |-> None, data |-> <<>>,
               success |-> Absent]

\* The value of `result` while the session is running.
NoResult == [tag |-> "", hasSnap |-> FALSE, status |-> "", next |-> None,
             data |-> <<>>, success |-> Absent]

\* No request sent yet.
NoRequest == [method |-> "", endpoint |-> "", id |-> None, cursor |-> None,
              content_type |-> None, authorization |-> <<>>,
              idempotency |-> None]

VARIABLES
  kind,            \* "batch" or "crawl": which monitor loop runs
  pc,              \* await point the session is suspended at
  all_data,        \* the accumulator
  current_cursor,  \* Option<String>
  status,          \* local `status` of check_crawl_status while it drains
  req,             \* cursor of the GET in flight (None: base endpoint)
  result,          \* value the monitor returned
  nchecks,         \* number of GETs issued
  sleeps,          \* number of tokio::time::sleep calls
  seen,            \* history: documents of all decoded answers, in order
  lastResp,        \* history: the last answer received
  lastObs,         \* history: the last snapshot handed to the monitor loop
  nobs,            \* history: number of snapshots handed to the monitor loop
  idle,            \* history: cursor-less in-progress snapshots observed
  lastCursor,      \* history: last cursor a loop-observed snapshot carried
  remote,          \* which answers the remote service may give
  script,          \* the answers of a scripted remote service, in order
  api_key,         \* FirecrawlApp::api_key
  idempotency_key, \* the caller's idempotency_key argument
  job_id,          \* id the monitor polls
  wire,            \* the last HTTP request sent
  nposts,          \* number of submit POSTs sent
  inflight,        \* number of GETs awaiting their answer
  hcall,           \* one call of handle_response: its arguments and result
  job,             \* remote service: "running" or "terminal"
  chain,           \* remote service: length of the cursor chain handed out
  sess,            \* concurrent sessions: kind, pc, req, result, answers
  locals,          \* concurrent sessions: all_data and current_cursor
  queue,           \* MpscTransport: messages in the channel
  handling,        \* MpscTransport::run: the message being processed
  answered,        \* MpscTransport::run: responses sent, in order
  tcall,           \* one tool call through a dispatch path, and its outcome
  spawned,         \* MpscTransport::spawn: channels, run task, client calls
  app              \* the construction of the FirecrawlApp: arguments, outcome

\* The configuration of a session: fixed when it starts.
cfgVars == <<remote, script, api_key, idempotency_key>>

vars == <<kind, pc, all_data, current_cursor, status, req, result, nchecks,
          sleeps, seen, lastResp, lastObs, nobs, idle, lastCursor, remote,
          script, api_key, idempotency_key, job_id, wire, nposts, inflight,
          hcall, job, chain, sess, locals, queue, handling, answered,
          tcall, spawned, app>>

\* The variables of the single polling session.
sessionVars == <<kind, pc, all_data, current_cursor, status, req, result,
                 nchecks, sleeps, seen, lastResp, lastObs, nobs, idle,
                 lastCursor, job_id, wire, nposts, inflight>>

\* The state of the parts of the program other than the polling session.
otherVars == <<hcall, job, chain, sess, locals, queue, handling, answered,
               tcall, spawned, app>>

\* The constructor call of the FirecrawlApp is not looked at.
NoApp == [ctor |-> "", url |-> "", key |-> "none", built |-> "",
          api_url |-> "", error |-> ""]

\* The variables of the dispatch facade, of MpscTransport::spawn and of the
\* construction of the FirecrawlApp they hold.
facadeVars == <<tcall, spawned, app>>

\* No tool call is being looked at.
NoToolCall == [path |-> "", name |-> ""]

\* No transport was created.
NotSpawned == [phase |-> ""]

\* The variables of MpscTransport::run.
mpscVars == <<queue, handling, answered>>

\* run holds no message.
NoMessage == [id |-> 0, tool |-> ""]

\* No call of handle_response is being looked at.
NoCall == [T |-> "", action |-> "", response |-> <<>>, out |-> <<>>]

\* The other parts of the program are idle.
OthersIdle ==
  /\ hcall = NoCall
  /\ job = "running"
  /\ chain = 0
  /\ sess = <<>>
  /\ locals = <<>>
  /\ queue = <<>>
  /\ handling = NoMessage
  /\ answered = <<>>
  /\ tcall = NoToolCall
  /\ spawned = NotSpawned
  /\ app = NoApp

----------------------------------------------------------------------------
(* Transport client *)

prepare_headers_always_bearer(key, idem) ==
  [content_type |-> "application/json",
   authorization |-> <<"Bearer", key>>,
   idempotency |-> idem]

\* FirecrawlApp::prepare_headers
prepare_headers(key, idem) ==
  [content_type |-> "application/json",
   authorization |-> IF key # None THEN <<"Bearer", key>> ELSE <<>>,
   idempotency |-> idem]

\* StatusCode::is_success
is_success(code) == code >= 200 /\ code <= 299

\* serde decoding of a 2xx body into the expected type T: a status snapshot
\* needs a status string that is a variant of the job kind's status enum, a
\* submit response needs the job id, a SearchResponse its success flag (every
\* field of MapResponse is optional).
decodes(T, r) ==
  CASE T = "BatchScrapeStatus" ->
         r.body = "snapshot" /\ r.status \in BatchScrapeStatusTypes
    [] T = "CrawlStatus" ->
         r.body = "snapshot" /\ r.status \in CrawlStatusTypes
    [] T \in {"BatchScrapeResponse", "CrawlAsyncResponse"} ->
         r.body = "handle"
    [] T = "MapResponse" -> r.body = "json"
    [] T = "SearchResponse" -> r.body = "json" /\ r.success # "absent"

\* The typed value of a body that decodes.  CrawlStatus has no success field.
decode(T, r) ==
  CASE T = "BatchScrapeStatus" ->
         [status |-> r.status, next |-> r.next, data |-> r.data,
          success |-> r.success]
    [] T = "CrawlStatus" ->
         [status |-> r.status, next |-> r.next, data |-> r.data,
          success |-> Absent]
    [] T \in {"MapResponse", "SearchResponse"} ->
         [success |-> r.success, list |-> r.list, error |-> r.error]
    [] OTHER -> [id |-> r.id, success |-> r.success]

Err(tag, action, code, error) ==
  [ok |-> FALSE, tag |-> tag, action |-> action, code |-> code,
   error |-> error, snap |-> NoSnapshot]

Ok(snap) ==
  [ok |-> TRUE, tag |-> "Ok", action |-> "", code |-> 0, error |-> "",
   snap |-> snap]

handle_response_body_first(T, r, action) ==
  IF r.body = "unreadable" THEN Err("HttpError", action, 0, "")
  ELSE IF decodes(T, r) THEN Ok(decode(T, r))
  ELSE IF is_success(r.code) THEN Err("ResponseParseErrorText", "", 0, "")
  ELSE IF r.body = "api_error" THEN Err("APIError", action, 0, r.error)
  ELSE Err("HttpRequestFailed", action, r.code, "")

handle_response_checks_flag(T, r, action) ==
  IF ~is_success(r.code)
  THEN IF r.body = "api_error" THEN Err("APIError", action, 0, r.error)
                               ELSE Err("HttpRequestFailed", action, r.code, "")
  ELSE IF r.body = "unreadable" THEN Err("HttpError", action, 0, "")
  ELSE IF decodes(T, r) /\ r.success = "true" THEN Ok(decode(T, r))
  ELSE Err("ResponseParseErrorText", "", 0, "")

\* FirecrawlApp::handle_response::<T>
handle_response(T, r, action) ==
  IF ~is_success(r.code)
  THEN IF r.body = "api_error" THEN Err("APIError", action, 0, r.error)
                               ELSE Err("HttpRequestFailed", action, r.code, "")
  ELSE IF r.body = "unreadable" THEN Err("HttpError", action, 0, "")
  ELSE IF decodes(T, r) THEN Ok(decode(T, r))
  ELSE Err("ResponseParseErrorText", "", 0, "")

\* The snapshot type a status check of the job kind decodes.
status_type(k) == IF k = "batch" THEN "BatchScrapeStatus" ELSE "CrawlStatus"

\* The status strings the job kind's status enum decodes.
StatusTypesOf(k) ==
  IF k = "batch" THEN BatchScrapeStatusTypes ELSE CrawlStatusTypes

\* The action text of a status check.
status_action(k, cursor) ==
  CASE k = "batch" -> "check batch scrape status"
    [] cursor = None -> "Checking status of crawl"
    [] OTHER -> "Paginating crawl using URL"

\* The action text of the HttpError of a status check that could not be sent.
status_send_action(k, cursor) ==
  CASE k = "batch" -> "Checking batch scrape status"
    [] cursor = None -> "Checking status of crawl"
    [] OTHER -> "Paginating crawl using URL"

\* One GET of a status endpoint: send().await.map_err(HttpError)?, then
\* handle_response.
check_status_get(k, cursor, r) ==
  IF ~r.sent THEN Err("HttpError", status_send_action(k, cursor), 0, "")
  ELSE handle_response(status_type(k), r, status_action(k, cursor))

status_request_by_id(k, id, cursor, key) ==
  LET h == prepare_headers(key, None) IN
  [method |-> "GET",
   endpoint |-> IF k = "batch" THEN "/v1/batch/scrape/{id}"
                               ELSE "/v1/crawl/{id}",
   id |-> id,
   cursor |-> None,
   content_type |-> h.content_type,
   authorization |-> h.authorization,
   idempotency |-> h.idempotency]

\* The GET a status check sends: the base endpoint by job id, the base
\* endpoint with ?cursor= (batch scrape), or the next URL itself (crawl).
status_request(k, id, cursor, key) ==
  LET h == prepare_headers(key, None) IN
  [method |-> "GET",
   endpoint |-> CASE k = "batch" /\ cursor = None -> "/v1/batch/scrape/{id}"
                  [] k = "batch" -> "/v1/batch/scrape/{id}?cursor={cursor}"
                  [] cursor = None -> "/v1/crawl/{id}"
                  [] OTHER -> "{next}",
   id |-> IF k = "crawl" /\ cursor # None THEN None ELSE id,
   cursor |-> cursor,
   content_type |-> h.content_type,
   authorization |-> h.authorization,
   idempotency |-> h.idempotency]

----------------------------------------------------------------------------
(* check_crawl_status: pagination drained inside the status check *)

\* `if status.status == Completed { while let Some(next) = status.next`,
\* entered only from check_crawl_status (cursor-less check of a crawl).
drains(k, cursor, snap) ==
  /\ k = "crawl"
  /\ cursor = None
  /\ snap.status = "completed"
  /\ snap.next # None

extend_status_replace(st, new_status) ==
  [st EXCEPT !.data = new_status.data, !.next = new_status.next]

\* status.data.extend_from_slice(&new_status.data); status.next = new_status.next
extend_status(st, new_status) ==
  [st EXCEPT !.data = @ \o new_status.data, !.next = new_status.next]

----------------------------------------------------------------------------
(* The monitor loops *)

append_data_prepend(acc, data) == data \o acc

append_data_deferred(acc, data) == acc

\* all_data.append(&mut status_data.data)
append_data(acc, data) == acc \o data

select_cursor_reset(cur, snap) == snap.next

\* if let Some(next) = status_data.next { current_cursor = Some(next) };
\* otherwise the cursor is kept as is.
select_cursor(cur, snap) == IF snap.next # None THEN snap.next ELSE cur

after_page_status_first(snap) ==
  CASE snap.status = "scraping" -> IF snap.next # None THEN "check" ELSE "sleep"
    [] OTHER -> "done"

after_page_no_sleep(snap) ==
  IF snap.next # None THEN "check"
  ELSE CASE snap.status = "scraping" -> "check"
         [] OTHER -> "done"

after_page_return_first(snap) ==
  IF snap.next # None THEN "check" ELSE "done"

after_page_failed_polls_on(snap) ==
  IF snap.next # None THEN "check"
  ELSE CASE snap.status = "completed" -> "done"
         [] snap.status = "scraping" -> "sleep"
         [] snap.status = "failed" -> "sleep"
         [] snap.status = "cancelled" -> "done"

after_page_sleep_paging(snap) ==
  CASE snap.status = "scraping" -> "sleep"
    [] snap.next # None -> "check"
    [] OTHER -> "done"

\* Where the loop goes after a page was collected: `continue` on a cursor,
\* otherwise the match on status_data.status.
after_page(snap) ==
  IF snap.next # None THEN "check"
  ELSE CASE snap.status = "completed" -> "done"
         [] snap.status = "scraping" -> "sleep"
         [] snap.status = "failed" -> "done"
         [] snap.status = "cancelled" -> "done"

completed_result_page_only(status_data, all) ==
  [tag |-> "Ok", hasSnap |-> TRUE, status |-> status_data.status,
   next |-> status_data.next, data |-> status_data.data,
   success |-> status_data.success]

\* status_data.data = all_data; break Ok(status_data)
completed_result(status_data, all) ==
  [tag |-> "Ok", hasSnap |-> TRUE, status |-> status_data.status,
   next |-> status_data.next, data |-> all, success |-> status_data.success]

\* break Err(FirecrawlError::BatchScrapeJobFailed("Batch scrape job failed."))
batch_failed_result(status_data, all) ==
  [tag |-> "BatchScrapeJobFailed", hasSnap |-> FALSE, status |-> "",
   next |-> None, data |-> <<>>, success |-> Absent]

\* status_data.data = all_data; break Err(CrawlJobFailed(.., status_data))
crawl_failed_result(status_data, all) ==
  [tag |-> "CrawlJobFailed", hasSnap |-> TRUE, status |-> status_data.status,
   next |-> status_data.next, data |-> all, success |-> status_data.success]

crawl_cancelled_result_as_failed(status_data, all) ==
  [tag |-> "CrawlJobFailed", hasSnap |-> TRUE, status |-> status_data.status,
   next |-> status_data.next, data |-> all, success |-> status_data.success]

\* status_data.data = all_data; break Err(CrawlJobCancelled(status_data))
crawl_cancelled_result(status_data, all) ==
  [tag |-> "CrawlJobCancelled", hasSnap |-> TRUE,
   status |-> status_data.status, next |-> status_data.next, data |-> all,
   success |-> status_data.success]

\* The value the match arm breaks with (NoResult: the loop goes on).
monitor_result(k, status_data, all) ==
  IF after_page(status_data) # "done" THEN NoResult
  ELSE CASE status_data.status = "completed" ->
              completed_result(status_data, all)
         [] status_data.status = "failed" ->
              IF k = "batch" THEN batch_failed_result(status_data, all)
                             ELSE crawl_failed_result(status_data, all)
         [] OTHER -> crawl_cancelled_result(status_data, all)

on_check_error_retry(e) == [pc |-> "check", result |-> NoResult]

\* `.await?` on a status check: the error is the monitor's return value.
on_check_error(e) ==
  [pc |-> "done",
   result |-> [tag |-> e.tag, hasSnap |-> FALSE, status |-> "",
               next |-> None, data |-> <<>>, success |-> Absent]]

\* The answer of the GET in flight made the status check fail.
CheckFailed(e) ==
  /\ pc' = on_check_error(e).pc
  /\ result' = on_check_error(e).result
  /\ UNCHANGED <<all_data, current_cursor, status, sleeps, lastObs, nobs,
                 idle, lastCursor>>

\* The loop body from the returned snapshot to the next await point.
Observe(status_data) ==
  /\ all_data' = append_data(all_data, status_data.data)
  /\ current_cursor' = select_cursor(current_cursor, status_data)
  /\ pc' = after_page(status_data)
  /\ result' = monitor_result(kind, status_data, all_data')
  /\ sleeps' = IF pc' = "sleep" THEN sleeps + 1 ELSE sleeps
  /\ lastObs' = status_data
  /\ nobs' = nobs + 1
  /\ idle' = IF status_data.next = None /\ status_data.status = "scraping"
             THEN idle + 1 ELSE idle
  /\ lastCursor' = IF status_data.next # None THEN status_data.next
                                              ELSE lastCursor

NoResponse == Bare(FALSE, 0, "", "")

\* The answers the remote service may give to the status check in flight.
Answers ==
  CASE remote = "free" -> WireResponses
    [] remote = "small" -> SmallResponses
    [] remote = "script" -> IF nchecks <= Len(script) THEN {script[nchecks]}
                                                      ELSE {}

\* A session that enters the monitor with the id of a submitted job.
Init ==
  /\ kind \in {"batch", "crawl"}
  /\ pc = "check"
  /\ all_data = <<>>
  /\ current_cursor = None
  /\ status = NoSnapshot
  /\ req = None
  /\ result = NoResult
  /\ nchecks = 0
  /\ sleeps = 0
  /\ seen = <<>>
  /\ lastResp = NoResponse
  /\ lastObs = NoSnapshot
  /\ nobs = 0
  /\ idle = 0
  /\ lastCursor = None
  /\ remote = "free"
  /\ script = <<>>
  /\ api_key = "key"
  /\ idempotency_key = None
  /\ job_id = "job-1"
  /\ wire = NoRequest
  /\ nposts = 0
  /\ inflight = 0
  /\ OthersIdle

\* Top of the loop: the GET is sent, with the cursor when there is one.
IssueCheck ==
  /\ pc = "check"
  /\ nchecks < MaxChecks
  /\ req' = current_cursor
  /\ wire' = status_request(kind, job_id, current_cursor, api_key)
  /\ nchecks' = nchecks + 1
  /\ inflight' = inflight + 1
  /\ pc' = "await"
  /\ UNCHANGED <<kind, all_data, current_cursor, status, result, sleeps, seen,
                 lastResp, lastObs, nobs, idle, lastCursor, job_id, nposts>>
  /\ UNCHANGED <<cfgVars, otherVars>>

\* The answer to the loop's GET arrives.
ReceiveCheck ==
  /\ pc = "await"
  /\ \E r \in Answers :
       LET out == check_status_get(kind, req, r) IN
       /\ lastResp' = r
       /\ IF ~out.ok
          THEN CheckFailed(out) /\ seen' = seen
          ELSE /\ seen' = seen \o out.snap.data
               /\ IF drains(kind, req, out.snap)
                  THEN /\ status' = out.snap
                       /\ pc' = "drain"
                       /\ UNCHANGED <<all_data, current_cursor, result,
                                      sleeps, lastObs, nobs, idle, lastCursor>>
                  ELSE Observe(out.snap) /\ status' = status
  /\ inflight' = inflight - 1
  /\ UNCHANGED <<kind, req, nchecks, job_id, wire, nposts>>
  /\ UNCHANGED <<cfgVars, otherVars>>

\* check_crawl_status: self.check_crawl_status_next(next) is sent.
DrainIssue ==
  /\ pc = "drain"
  /\ nchecks < MaxChecks
  /\ req' = status.next
  /\ wire' = status_request(kind, job_id, status.next, api_key)
  /\ nchecks' = nchecks + 1
  /\ inflight' = inflight + 1
  /\ pc' = "drain_await"
  /\ UNCHANGED <<kind, all_data, current_cursor, status, result, sleeps, seen,
                 lastResp, lastObs, nobs, idle, lastCursor, job_id, nposts>>
  /\ UNCHANGED <<cfgVars, otherVars>>

\* check_crawl_status: the answer to check_crawl_status_next arrives.
DrainReceive ==
  /\ pc = "drain_await"
  /\ \E r \in Answers :
       LET out == check_status_get(kind, req, r) IN
       /\ lastResp' = r
       /\ IF ~out.ok
          THEN CheckFailed(out) /\ seen' = seen
          ELSE LET merged == extend_status(status, out.snap) IN
               /\ seen' = seen \o out.snap.data
               /\ IF merged.next # None
                  THEN /\ status' = merged
                       /\ pc' = "drain"
                       /\ UNCHANGED <<all_data, current_cursor, result,
                                      sleeps, lastObs, nobs, idle, lastCursor>>
                  ELSE Observe(merged) /\ status' = NoSnapshot
  /\ inflight' = inflight - 1
  /\ UNCHANGED <<kind, req, nchecks, job_id, wire, nposts>>
  /\ UNCHANGED <<cfgVars, otherVars>>

\* tokio::time::sleep(poll_interval) elapses.
Wake ==
  /\ pc = "sleep"
  /\ pc' = "check"
  /\ UNCHANGED <<kind, all_data, current_cursor, status, req, result, nchecks,
                 sleeps, seen, lastResp, lastObs, nobs, idle, lastCursor,
                 job_id, wire, nposts, inflight>>
  /\ UNCHANGED <<cfgVars, otherVars>>

Next == IssueCheck \/ ReceiveCheck \/ DrainIssue \/ DrainReceive \/ Wake

Spec == Init /\ [][Next]_vars

----------------------------------------------------------------------------
(* crawl_url / batch_scrape_urls: submit, then monitor *)

\* The typed response of the submit POST of a job kind.
submit_type(k) ==
  IF k = "batch" THEN "BatchScrapeResponse" ELSE "CrawlAsyncResponse"

\* The action text of a failed submit.
submit_action(k) == IF k = "batch" THEN "batch scrape URLs" ELSE "start crawl job"

\* The action text of the HttpError of a submit that could not be sent.
submit_send_action(k) ==
  IF k = "batch" THEN "Batch scraping URLs" ELSE "Crawling {url}"

\* The submit POST with the caller's idempotency key.
submit_request(k, key, idem) ==
  LET h == prepare_headers(key, idem) IN
  [method |-> "POST",
   endpoint |-> IF k = "batch" THEN "/v1/batch/scrape" ELSE "/v1/crawl",
   id |-> None,
   cursor |-> None,
   content_type |-> h.content_type,
   authorization |-> h.authorization,
   idempotency |-> h.idempotency]

\* send().await.map_err(HttpError)?, then handle_response.
submit_post(k, r) ==
  IF ~r.sent THEN Err("HttpError", submit_send_action(k), 0, "")
  ELSE handle_response(submit_type(k), r, submit_action(k))

monitor_job_id_first(response) == "job-1"

\* The id handed to the monitor: &response.id / &res.id
monitor_job_id(response) == response.id

\* A call of crawl_url or batch_scrape_urls, on an app with or without API
\* key, with or without idempotency key.
InitCall ==
  /\ kind \in {"batch", "crawl"}
  /\ pc = "submit"
  /\ all_data = <<>>
  /\ current_cursor = None
  /\ status = NoSnapshot
  /\ req = None
  /\ result = NoResult
  /\ nchecks = 0
  /\ sleeps = 0
  /\ seen = <<>>
  /\ lastResp = NoResponse
  /\ lastObs = NoSnapshot
  /\ nobs = 0
  /\ idle = 0
  /\ lastCursor = None
  /\ remote = "small"
  /\ script = <<>>
  /\ api_key \in {None, "key"}
  /\ idempotency_key \in {None, "idem-1"}
  /\ job_id = None
  /\ wire = NoRequest
  /\ nposts = 0
  /\ inflight = 0
  /\ OthersIdle

\* The submit POST is sent.
SubmitIssue ==
  /\ pc = "submit"
  /\ wire' = submit_request(kind, api_key, idempotency_key)
  /\ nposts' = nposts + 1
  /\ pc' = "submit_await"
  /\ UNCHANGED <<kind, all_data, current_cursor, status, req, result, nchecks,
                 sleeps, seen, lastResp, lastObs, nobs, idle, lastCursor,
                 job_id, inflight>>
  /\ UNCHANGED <<cfgVars, otherVars>>

\* The answer to the submit POST arrives: `?` returns the error, otherwise
\* the monitor is entered with the returned id.
SubmitReceive ==
  /\ pc = "submit_await"
  /\ \E r \in SubmitResponses :
       LET out == submit_post(kind, r) IN
       /\ lastResp' = r
       /\ IF ~out.ok
          THEN /\ pc' = "done"
               /\ result' = [tag |-> out.tag, hasSnap |-> FALSE,
                             status |-> "", next |-> None, data |-> <<>>,
                             success |-> Absent]
               /\ job_id' = job_id
          ELSE /\ pc' = "check"
               /\ result' = result
               /\ job_id' = monitor_job_id(out.snap)
  /\ UNCHANGED <<kind, all_data, current_cursor, status, req, nchecks, sleeps,
                 seen, lastObs, nobs, idle, lastCursor, wire, nposts,
                 inflight>>
  /\ UNCHANGED <<cfgVars, otherVars>>

NextCall ==
  \/ SubmitIssue \/ SubmitReceive
  \/ IssueCheck \/ ReceiveCheck \/ DrainIssue \/ DrainReceive \/ Wake

SpecCall == InitCall /\ [][NextCall]_vars

----------------------------------------------------------------------------
(* handle_response on its own *)

\* HTTP status codes around the borders of the 2xx class.
StatusCodes == {199, 200, 204, 299, 300, 404, 500}

\* Bodies: a status snapshot, a submit response, a structured API error,
\* something else, a body that cannot be read.
Bodies == {"snapshot", "handle", "api_error", "garbage", "unreadable"}

\* The responses handle_response may be given.
Responses ==
  [sent : {TRUE}, code : StatusCodes, body : Bodies,
   status : {"scraping", "cancelled"}, next : {None}, data : {<<1>>},
   success : WireFlags, error : {"e1"}, id : {"job-1"}]

\* The expected types T of the callers.
ResponseTypes ==
  {"BatchScrapeStatus", "CrawlStatus", "BatchScrapeResponse",
   "CrawlAsyncResponse"}

InitHandle ==
  /\ kind = "batch"
  /\ pc = "handle"
  /\ all_data = <<>>
  /\ current_cursor = None
  /\ status = NoSnapshot
  /\ req = None
  /\ result = NoResult
  /\ nchecks = 0
  /\ sleeps = 0
  /\ seen = <<>>
  /\ lastResp = NoResponse
  /\ lastObs = NoSnapshot
  /\ nobs = 0
  /\ idle = 0
  /\ lastCursor = None
  /\ remote = "free"
  /\ script = <<>>
  /\ api_key = "key"
  /\ idempotency_key = None
  /\ job_id = None
  /\ wire = NoRequest
  /\ nposts = 0
  /\ inflight = 0
  /\ hcall \in [T : ResponseTypes, action : {"start crawl job"},
                 response : Responses, out : {<<>>}]
  /\ job = "running"
  /\ chain = 0
  /\ sess = <<>>
  /\ locals = <<>>
  /\ queue = <<>>
  /\ handling = NoMessage
  /\ answered = <<>>
  /\ tcall = NoToolCall
  /\ spawned = NotSpawned
  /\ app = NoApp

\* self.handle_response::<T>(response, action).await
HandleResponse ==
  /\ pc = "handle"
  /\ hcall' = [hcall EXCEPT
                 !.out = handle_response(hcall.T, hcall.response,
                                         hcall.action)]
  /\ pc' = "done"
  /\ UNCHANGED <<kind, all_data, current_cursor, status, req, result, nchecks,
                 sleeps, seen, lastResp, lastObs, nobs, idle, lastCursor,
                 job_id, wire, nposts, inflight>>
  /\ UNCHANGED <<cfgVars, job, chain, sess, locals, mpscVars, facadeVars>>

NextHandle == HandleResponse

SpecHandle == InitHandle /\ [][NextHandle]_vars

----------------------------------------------------------------------------
(* A session that may poll for ever, against a job that finishes *)

\* Longest chain of continuation cursors the remote service hands out.
MaxChain == 2

\* A 2xx status snapshot without documents.
LiveSnap(st, nx) ==
  [sent |-> TRUE, code |-> 200, body |-> "snapshot", status |-> st,
   next |-> nx, data |-> <<>>, success |-> "true", error |-> "", id |-> None]

\* The cursors an answer may carry: none once the chain is MaxChain long.
NextCursors == IF chain < MaxChain THEN Cursors \cup {None} ELSE {None}

\* The terminal states of a job of the kind.
TerminalStatuses(k) == StatusTypesOf(k) \ {"scraping"}

\* The answers to the GET in flight.  A head query (no cursor) reports the
\* job's state: in progress, or terminal and then without cursor.  A query
\* by cursor reports the job's state too when remote = "live_all"; when
\* remote = "live_head" the page keeps whatever state the service stored
\* with it.  Any request may fail to be sent.
LiveAnswers ==
  {Bare(FALSE, 0, "garbage", "")} \cup
  IF req = None
  THEN IF job = "running"
       THEN {LiveSnap("scraping", nx) : nx \in NextCursors}
       ELSE {LiveSnap(st, None) : st \in TerminalStatuses(kind)}
  ELSE IF remote = "live_all"
       THEN IF job = "running"
            THEN {LiveSnap("scraping", nx) : nx \in NextCursors}
            ELSE {LiveSnap(st, nx) : st \in TerminalStatuses(kind),
                                    nx \in NextCursors}
       ELSE {LiveSnap(st, nx) : st \in StatusTypesOf(kind),
                               nx \in NextCursors}

InitLive ==
  /\ kind \in {"batch", "crawl"}
  /\ pc = "check"
  /\ all_data = <<>>
  /\ current_cursor = None
  /\ status = NoSnapshot
  /\ req = None
  /\ result = NoResult
  /\ nchecks = 0
  /\ sleeps = 0
  /\ seen = <<>>
  /\ lastResp = NoResponse
  /\ lastObs = NoSnapshot
  /\ nobs = 0
  /\ idle = 0
  /\ lastCursor = None
  /\ remote \in {"live_head", "live_all"}
  /\ script = <<>>
  /\ api_key = "key"
  /\ idempotency_key = None
  /\ job_id = "job-1"
  /\ wire = NoRequest
  /\ nposts = 0
  /\ inflight = 0
  /\ hcall = NoCall
  /\ job = "running"
  /\ chain = 0
  /\ sess = <<>>
  /\ locals = <<>>
  /\ queue = <<>>
  /\ handling = NoMessage
  /\ answered = <<>>
  /\ tcall = NoToolCall
  /\ spawned = NotSpawned
  /\ app = NoApp

\* The remote job reaches a terminal state.
JobFinishes ==
  /\ job = "running"
  /\ job' = "terminal"
  /\ UNCHANGED <<kind, pc, all_data, current_cursor, status, req, result,
                 nchecks, sleeps, seen, lastResp, lastObs, nobs, idle,
                 lastCursor, job_id, wire, nposts, inflight, hcall, chain,
                 sess, locals, mpscVars, facadeVars>>
  /\ UNCHANGED cfgVars

\* Top of the loop: the GET is sent (the history counters are not kept).
LiveIssue ==
  /\ pc = "check"
  /\ req' = current_cursor
  /\ wire' = status_request(kind, job_id, current_cursor, api_key)
  /\ inflight' = inflight + 1
  /\ pc' = "await"
  /\ UNCHANGED <<kind, all_data, current_cursor, status, result, nchecks,
                 sleeps, seen, lastResp, lastObs, nobs, idle, lastCursor,
                 job_id, nposts, hcall, job, chain,
                 sess, locals, mpscVars, facadeVars>>
  /\ UNCHANGED cfgVars

\* The answer arrives: the loop body up to the next await point.
LiveReceive ==
  /\ pc = "await"
  /\ \E r \in LiveAnswers :
       LET out == check_status_get(kind, req, r) IN
       /\ chain' = IF r.next # None THEN chain + 1 ELSE 0
       /\ IF ~out.ok
          THEN /\ pc' = on_check_error(out).pc
               /\ result' = on_check_error(out).result
               /\ UNCHANGED <<all_data, current_cursor>>
          ELSE /\ all_data' = append_data(all_data, out.snap.data)
               /\ current_cursor' = select_cursor(current_cursor, out.snap)
               /\ pc' = after_page(out.snap)
               /\ result' = monitor_result(kind, out.snap, all_data')
  /\ inflight' = inflight - 1
  /\ UNCHANGED <<kind, status, req, nchecks, sleeps, seen, lastResp, lastObs,
                 nobs, idle, lastCursor, job_id, wire, nposts, hcall, job,
                 sess, locals, mpscVars, facadeVars>>
  /\ UNCHANGED cfgVars

\* tokio::time::sleep(poll_interval) elapses.
LiveWake ==
  /\ pc = "sleep"
  /\ pc' = "check"
  /\ UNCHANGED <<kind, all_data, current_cursor, status, req, result, nchecks,
                 sleeps, seen, lastResp, lastObs, nobs, idle, lastCursor,
                 job_id, wire, nposts, inflight, hcall, job, chain,
                 sess, locals, mpscVars, facadeVars>>
  /\ UNCHANGED cfgVars

NextLive == JobFinishes \/ LiveIssue \/ LiveReceive \/ LiveWake

\* The runtime keeps polling the session's future, requests are answered,
\* timers fire, and the remote job does reach a terminal state.
SpecLive ==
  /\ InitLive /\ [][NextLive]_vars
  /\ WF_vars(LiveIssue) /\ WF_vars(LiveReceive) /\ WF_vars(LiveWake)
  /\ WF_vars(JobFinishes)

----------------------------------------------------------------------------
(* Concurrent sessions on one shared FirecrawlApp *)

\* The concurrent calls of the monitor on one &FirecrawlApp.
Sessions == {1, 2}

\* Bound on the status checks of one concurrent session.
MaxSessionChecks == 2

\* The answers given to the concurrent sessions.
SessionResponses ==
  { [sent |-> TRUE, code |-> 200, body |-> "snapshot", status |-> "scraping",
     next |-> None, data |-> <<1>>, success |-> "true", error |-> "",
     id |-> None],
    [sent |-> TRUE, code |-> 200, body |-> "snapshot", status |-> "scraping",
     next |-> "c1", data |-> <<1>>, success |-> "true", error |-> "",
     id |-> None],
    [sent |-> TRUE, code |-> 200, body |-> "snapshot", status |-> "completed",
     next |-> None, data |-> <<2>>, success |-> "true", error |-> "",
     id |-> None],
    Bare(FALSE, 0, "garbage", "") }

local_slot_shared(i) == 1

\* `let mut all_data = Vec::new(); let mut current_cursor = None;` are locals
\* of the call: session i has the slot i.
local_slot(i) == i

InitConc ==
  /\ kind = "batch"
  /\ pc = "done"
  /\ all_data = <<>>
  /\ current_cursor = None
  /\ status = NoSnapshot
  /\ req = None
  /\ result = NoResult
  /\ nchecks = 0
  /\ sleeps = 0
  /\ seen = <<>>
  /\ lastResp = NoResponse
  /\ lastObs = NoSnapshot
  /\ nobs = 0
  /\ idle = 0
  /\ lastCursor = None
  /\ remote = "free"
  /\ script = <<>>
  /\ api_key = "key"
  /\ idempotency_key = None
  /\ job_id = None
  /\ wire = NoRequest
  /\ nposts = 0
  /\ inflight = 0
  /\ hcall = NoCall
  /\ job = "running"
  /\ chain = 0
  /\ sess \in [Sessions -> [kind : {"batch", "crawl"}, pc : {"check"},
                             req : {None}, result : {NoResult},
                             answers : {<<>>}]]
  /\ locals = [i \in Sessions |-> [all_data |-> <<>>,
                                    current_cursor |-> None]]
  /\ queue = <<>>
  /\ handling = NoMessage
  /\ answered = <<>>
  /\ tcall = NoToolCall
  /\ spawned = NotSpawned
  /\ app = NoApp

\* Session i sends its status check.
SessionIssue(i) ==
  /\ sess[i].pc = "check"
  /\ Len(sess[i].answers) < MaxSessionChecks
  /\ sess' = [sess EXCEPT ![i].pc = "await",
                          ![i].req = locals[local_slot(i)].current_cursor]
  /\ UNCHANGED <<locals, sessionVars, cfgVars, hcall, job, chain,
                 mpscVars, facadeVars>>

\* The answer to session i's status check arrives.
SessionReceive(i) ==
  /\ sess[i].pc = "await"
  /\ \E r \in SessionResponses :
       LET out == check_status_get(sess[i].kind, sess[i].req, r)
           mine == locals[local_slot(i)]
           all == append_data(mine.all_data, out.snap.data)
       IN IF ~out.ok
          THEN /\ sess' = [sess EXCEPT ![i].pc = on_check_error(out).pc,
                                       ![i].result = on_check_error(out).result,
                                       ![i].answers = Append(@, r)]
               /\ locals' = locals
          ELSE /\ locals' = [locals EXCEPT ![local_slot(i)] =
                               [all_data |-> all,
                                current_cursor |->
                                  select_cursor(mine.current_cursor, out.snap)]]
               /\ sess' = [sess EXCEPT
                             ![i].pc = after_page(out.snap),
                             ![i].result =
                               monitor_result(sess[i].kind, out.snap, all),
                             ![i].answers = Append(@, r)]
  /\ UNCHANGED <<sessionVars, cfgVars, hcall, job, chain,
                 mpscVars, facadeVars>>

\* Session i's sleep elapses.
SessionWake(i) ==
  /\ sess[i].pc = "sleep"
  /\ sess' = [sess EXCEPT ![i].pc = "check"]
  /\ UNCHANGED <<locals, sessionVars, cfgVars, hcall, job, chain,
                 mpscVars, facadeVars>>

NextConc ==
  \E i \in Sessions : SessionIssue(i) \/ SessionReceive(i) \/ SessionWake(i)

SpecConc == InitConc /\ [][NextConc]_vars

\* The state of a session's loop after a status check was answered.
run_step(k, st, r) ==
  LET out == check_status_get(k, st.current_cursor, r) IN
  IF ~out.ok
  THEN [st EXCEPT !.pc = on_check_error(out).pc,
                  !.result = on_check_error(out).result]
  ELSE [pc |-> after_page(out.snap),
        all_data |-> append_data(st.all_data, out.snap.data),
        current_cursor |-> select_cursor(st.current_cursor, out.snap),
        result |-> monitor_result(k, out.snap,
                                  append_data(st.all_data, out.snap.data))]

RECURSIVE run_alone(_, _, _)
\* The state of a session that runs alone and is given the answers sq.
run_alone(k, st, sq) ==
  IF sq = <<>> THEN st
  ELSE run_alone(k, run_step(k, st, Head(sq)), Tail(sq))

----------------------------------------------------------------------------
(* MpscTransport::run *)

\* Number of messages the clients have put into the channel.
MaxMessages == 2

\* The requests of the messages: two tool calls that poll a job, and one
\* request that is answered without any call of the remote service.
Tools == {"firecrawl_crawl", "firecrawl_batch_scrape", "list_tools"}

\* The job kind a tool call polls.
tool_kind(tool) == IF tool = "firecrawl_crawl" THEN "crawl" ELSE "batch"

InitMpsc ==
  /\ kind = "batch"
  /\ pc = "recv"
  /\ all_data = <<>>
  /\ current_cursor = None
  /\ status = NoSnapshot
  /\ req = None
  /\ result = NoResult
  /\ nchecks = 0
  /\ sleeps = 0
  /\ seen = <<>>
  /\ lastResp = NoResponse
  /\ lastObs = NoSnapshot
  /\ nobs = 0
  /\ idle = 0
  /\ lastCursor = None
  /\ remote = "small"
  /\ script = <<>>
  /\ api_key = "key"
  /\ idempotency_key = None
  /\ job_id = None
  /\ wire = NoRequest
  /\ nposts = 0
  /\ inflight = 0
  /\ hcall = NoCall
  /\ job = "running"
  /\ chain = 0
  /\ sess = <<>>
  /\ locals = <<>>
  /\ \E f \in [1..MaxMessages -> Tools] :
       queue = [i \in 1..MaxMessages |-> [id |-> i, tool |-> f[i]]]
  /\ handling = NoMessage
  /\ answered = <<>>
  /\ tcall = NoToolCall
  /\ spawned = NotSpawned
  /\ app = NoApp

\* `while let Some(message) = self.rx.recv().await`: the next message is
\* taken and its request is started: a tool call enters the SDK call
\* (idempotency key None), list_tools has its result at once.
MpscRecv ==
  /\ pc = "recv"
  /\ queue # <<>>
  /\ handling' = Head(queue)
  /\ queue' = Tail(queue)
  /\ IF Head(queue).tool = "list_tools"
     THEN /\ pc' = "done"
          /\ kind' = kind
          /\ result' = [NoResult EXCEPT !.tag = "Ok"]
     ELSE /\ pc' = "submit"
          /\ kind' = tool_kind(Head(queue).tool)
          /\ result' = NoResult
  /\ all_data' = <<>>
  /\ current_cursor' = None
  /\ status' = NoSnapshot
  /\ req' = None
  /\ nchecks' = 0
  /\ sleeps' = 0
  /\ seen' = <<>>
  /\ lastResp' = NoResponse
  /\ lastObs' = NoSnapshot
  /\ nobs' = 0
  /\ idle' = 0
  /\ lastCursor' = None
  /\ job_id' = None
  /\ wire' = NoRequest
  /\ nposts' = 0
  /\ inflight' = 0
  /\ UNCHANGED <<answered, cfgVars, hcall, job, chain, sess, locals,
                 facadeVars>>

\* response_tx.send(result), then back to rx.recv().
MpscRespond ==
  /\ pc = "done"
  /\ handling # NoMessage
  /\ answered' = Append(answered, [id |-> handling.id,
                                    ok |-> result.tag = "Ok"])
  /\ handling' = NoMessage
  /\ pc' = "recv"
  /\ UNCHANGED <<kind, all_data, current_cursor, status, req, result, nchecks,
                 sleeps, seen, lastResp, lastObs, nobs, idle, lastCursor,
                 job_id, wire, nposts, inflight>>
  /\ UNCHANGED <<queue, cfgVars, hcall, job, chain, sess, locals,
                 facadeVars>>

NextMpsc ==
  \/ MpscRecv \/ MpscRespond
  \/ SubmitIssue \/ SubmitReceive
  \/ IssueCheck \/ ReceiveCheck \/ DrainIssue \/ DrainReceive \/ Wake

SpecMpsc == InitMpsc /\ [][NextMpsc]_vars

----------------------------------------------------------------------------
(* A scripted remote service: the job's snapshots are fixed in advance *)

\* Largest value of the `completed` counter of a snapshot.
MaxCompleted == 2

\* A cursor-less snapshot of a job in progress, or its final snapshot.
ScriptAnswer(st, page, done) ==
  [sent |-> TRUE, code |-> 200, body |-> "snapshot", status |-> st,
   next |-> None, data |-> page, success |-> "true", error |-> "",
   id |-> None, completed |-> done]

\* The snapshots of a job from its start to its completion: `completed`
\* never decreases, no snapshot carries a cursor, the job is in progress
\* until the final snapshot, which reports Completed.
Scripts ==
  UNION { { [i \in 1..n |->
               ScriptAnswer(IF i = n THEN "completed" ELSE "scraping",
                            f[i][1], f[i][2])] :
            f \in { g \in [1..n -> Pages \X (0..MaxCompleted)] :
                      \A i \in 1..(n - 1) : g[i][2] <= g[i + 1][2] } } :
          n \in 1..MaxChecks }

RECURSIVE ScriptDocs(_)
\* The documents of the snapshots of a script, in call order.
ScriptDocs(sq) ==
  IF sq = <<>> THEN <<>> ELSE Head(sq).data \o ScriptDocs(Tail(sq))

InitScript ==
  /\ kind \in {"batch", "crawl"}
  /\ pc = "check"
  /\ all_data = <<>>
  /\ current_cursor = None
  /\ status = NoSnapshot
  /\ req = None
  /\ result = NoResult
  /\ nchecks = 0
  /\ sleeps = 0
  /\ seen = <<>>
  /\ lastResp = NoResponse
  /\ lastObs = NoSnapshot
  /\ nobs = 0
  /\ idle = 0
  /\ lastCursor = None
  /\ remote = "script"
  /\ script \in Scripts
  /\ api_key = "key"
  /\ idempotency_key = None
  /\ job_id = "job-1"
  /\ wire = NoRequest
  /\ nposts = 0
  /\ inflight = 0
  /\ OthersIdle

NextScript == IssueCheck \/ ReceiveCheck \/ Wake

\* The runtime keeps polling the session's future, timers fire and the
\* scripted service answers every request.
SpecScript == InitScript /\ [][NextScript]_vars /\ WF_vars(NextScript)

----------------------------------------------------------------------------
(* The dispatch facade: FirecrawlMCP::call_tool and MpscTransport::run *)

\* The registered tools.
ToolNames ==
  {"firecrawl_scrape", "firecrawl_crawl", "firecrawl_batch_scrape",
   "firecrawl_map", "firecrawl_search"}

\* ScrapeOptions::default(): no formats (Option::None is the empty tuple,
\* Some(x) the tuple of x).
DefaultScrapeOptions == [formats |-> <<>>, rest |-> "default"]

\* CallToolRequestParam::arguments = None.
MissingArguments ==
  [present |-> FALSE, parses |-> FALSE, scrape_options |-> <<>>,
   rest |-> "", webhook |-> <<>>]

\* JsonObject::default(): the object without any field; no tool input
\* deserializes from it (url, urls and query are required).
EmptyObject ==
  [present |-> TRUE, parses |-> FALSE, scrape_options |-> <<>>,
   rest |-> "", webhook |-> <<>>]

\* The arguments of a tool call: missing, empty, or an object that
\* deserializes into the tool's input: scrape options (with or without a
\* format list) or none, the tool's other options, a webhook or none.
Arguments ==
  {MissingArguments, EmptyObject} \cup
  [present : {TRUE}, parses : {TRUE},
   scrape_options :
     {<<>>} \cup
     { <<so>> : so \in [formats : {<<>>, << <<"html">> >>,
                                   << <<"markdown">> >>,
                                   << <<"html", "markdown">> >>},
                        rest : {"s1", "s2"}] },
   rest : {"o1", "o2"},
   webhook : {<<>>, <<"hook-1">>}]

\* What the SDK call of a tool returns: documents (or results, links), or
\* an error with its Display text.
SdkResults ==
  { [ok |-> TRUE, message |-> "", docs |-> d] :
      d \in {<<>>, <<"d1">>, <<"d1", "d2">>} } \cup
  { [ok |-> FALSE, message |-> m, docs |-> <<>>] :
      m \in {"transport error", "API error", "protocol error", "job failed",
             "job cancelled"} }

\* The result of a dispatch path.
ToolResult(k, code, message, text, called, args, input) ==
  [kind |-> k, code |-> code, message |-> message, text |-> text,
   called |-> called, args |-> args, input |-> input]

\* No SDK call was made.
NoSdkArguments == [scrape_options |-> <<>>, rest |-> "", webhook |-> <<>>]

sdk_arguments_keep_formats(tool, input) ==
  LET so == IF input.scrape_options = <<>> THEN DefaultScrapeOptions
                                           ELSE input.scrape_options[1]
      forced == IF so.formats = <<>>
                THEN [so EXCEPT !.formats = << <<"markdown">> >>] ELSE so
  IN [scrape_options |->
        IF tool \in {"firecrawl_crawl", "firecrawl_batch_scrape",
                     "firecrawl_scrape"}
        THEN <<forced>> ELSE input.scrape_options,
      rest |-> input.rest,
      webhook |-> IF tool # "firecrawl_crawl" THEN <<>>
                  ELSE IF input.webhook = <<>> THEN <<"dummy">>
                  ELSE input.webhook]

sdk_arguments_always_dummy(tool, input) ==
  LET so == IF input.scrape_options = <<>> THEN DefaultScrapeOptions
                                           ELSE input.scrape_options[1]
      forced == [so EXCEPT !.formats = << <<"markdown">> >>]
  IN [scrape_options |->
        IF tool \in {"firecrawl_crawl", "firecrawl_batch_scrape",
                     "firecrawl_scrape"}
        THEN <<forced>> ELSE input.scrape_options,
      rest |-> input.rest,
      webhook |-> IF tool # "firecrawl_crawl" THEN <<>> ELSE <<"dummy">>]

\* What an adapter hands to the SDK: formats = Some(vec![Markdown]) in the
\* scrape options (created from the default when the caller gave none) for
\* crawl, batch_scrape and scrape; Webhook::dummy() for a crawl without
\* webhook; None as the webhook of a batch scrape.
sdk_arguments(tool, input) ==
  LET so == IF input.scrape_options = <<>> THEN DefaultScrapeOptions
                                           ELSE input.scrape_options[1]
      forced == [so EXCEPT !.formats = << <<"markdown">> >>]
  IN [scrape_options |->
        IF tool \in {"firecrawl_crawl", "firecrawl_batch_scrape",
                     "firecrawl_scrape"}
        THEN <<forced>> ELSE input.scrape_options,
      rest |-> input.rest,
      webhook |-> IF tool # "firecrawl_crawl" THEN <<>>
                  ELSE IF input.webhook = <<>> THEN <<"dummy">>
                  ELSE input.webhook]

RECURSIVE join(_, _)
\* .collect::<Vec<_>>().join(sep)
join(records, sep) ==
  IF records = <<>> THEN <<>>
  ELSE IF Len(records) = 1 THEN records[1]
  ELSE records[1] \o sep \o join(Tail(records), sep)

\* The text block of a tool: the format! of each document, joined.  A text
\* is a sequence of pieces; the piece "\n" is a line break.
format_documents(tool, docs) ==
  CASE tool = "firecrawl_crawl" ->
         join([i \in 1..Len(docs) |->
                 <<"URL: ", docs[i], "\n", "Title: ", docs[i], "\n",
                   "Content: ", docs[i]>>],
              <<"\n", "\n">>)
    [] tool = "firecrawl_batch_scrape" ->
         join([i \in 1..Len(docs) |->
                 <<"URL: ", docs[i], "\n", "Title: ", docs[i], "\n",
                   "Content: ", docs[i], "\n", "\n">>],
              <<"\n", "\n">>)
    [] tool = "firecrawl_search" ->
         IF docs = <<>> THEN <<"No search results found.">>
         ELSE join([i \in 1..Len(docs) |->
                      <<"Title: ", docs[i], "\n", "URL: ", docs[i], "\n",
                        "Description: ", docs[i], "\n">>],
                   <<"\n", "---", "\n", "\n">>)
    [] tool = "firecrawl_scrape" ->
         IF docs = <<>> THEN <<>> ELSE <<docs[1]>>
    [] OTHER -> <<"[">> \o docs \o <<"]">>

controller_call_swallows(tool, input, sdk) ==
  IF ~input.parses
  THEN ToolResult("Err", "invalid_params",
                  <<"failed to deserialize parameters">>, <<>>, FALSE,
                  NoSdkArguments, input)
  ELSE ToolResult("Ok", "", <<>>, format_documents(tool, sdk.docs), TRUE,
                  sdk_arguments(tool, input), input)

\* Controller::crawl, batch_scrape, scrape, map, search: parse_json_object,
\* the SDK call with map_err(internal_error(e.to_string())), the text.
controller_call(tool, input, sdk) ==
  IF ~input.parses
  THEN ToolResult("Err", "invalid_params",
                  <<"failed to deserialize parameters">>, <<>>, FALSE,
                  NoSdkArguments, input)
  ELSE IF ~sdk.ok
  THEN ToolResult("Err", "internal_error", <<sdk.message>>, <<>>, TRUE,
                  sdk_arguments(tool, input), input)
  ELSE ToolResult("Ok", "", <<>>, format_documents(tool, sdk.docs), TRUE,
                  sdk_arguments(tool, input), input)

\* Err(invalid_request(format!("Tool not found: {}", tool_name)))
tool_not_found(name) ==
  ToolResult("Err", "invalid_request", <<"Tool not found: ", name>>, <<>>,
             FALSE, NoSdkArguments, MissingArguments)

\* FirecrawlMCP::call_tool: request.arguments.unwrap() panics on None; the
\* error of search is wrapped as "Search error: {err}" ({err} shows the
\* error's code, then its message).
call_tool(name, arguments, sdk) ==
  IF ~arguments.present
  THEN ToolResult("Panic", "", <<>>, <<>>, FALSE, NoSdkArguments,
                  MissingArguments)
  ELSE IF name \notin ToolNames THEN tool_not_found(name)
  ELSE LET o == controller_call(name, arguments, sdk) IN
       IF name = "firecrawl_search" /\ o.kind = "Err"
       THEN [o EXCEPT !.code = "internal_error",
                      !.message = <<"Search error: ", o.code, ": ">>
                                  \o o.message]
       ELSE o

\* MpscTransport::run, MCPRequest::CallTool: call.arguments
\* .unwrap_or_default(), then the match on the tool name.
run_call_tool(name, arguments, sdk) ==
  LET args == IF arguments.present THEN arguments ELSE EmptyObject IN
  IF name \notin ToolNames THEN tool_not_found(name)
  ELSE controller_call(name, args, sdk)

\* No outcome yet.
NoToolResult ==
  ToolResult("", "", <<>>, <<>>, FALSE, NoSdkArguments, MissingArguments)

InitDispatch ==
  /\ kind = "batch"
  /\ pc = "dispatch"
  /\ all_data = <<>>
  /\ current_cursor = None
  /\ status = NoSnapshot
  /\ req = None
  /\ result = NoResult
  /\ nchecks = 0
  /\ sleeps = 0
  /\ seen = <<>>
  /\ lastResp = NoResponse
  /\ lastObs = NoSnapshot
  /\ nobs = 0
  /\ idle = 0
  /\ lastCursor = None
  /\ remote = "free"
  /\ script = <<>>
  /\ api_key = "key"
  /\ idempotency_key = None
  /\ job_id = None
  /\ wire = NoRequest
  /\ nposts = 0
  /\ inflight = 0
  /\ hcall = NoCall
  /\ job = "running"
  /\ chain = 0
  /\ sess = <<>>
  /\ locals = <<>>
  /\ queue = <<>>
  /\ handling = NoMessage
  /\ answered = <<>>
  /\ tcall \in [path : {"call_tool", "run"},
                 name : ToolNames \cup {"firecrawl_unknown"},
                 arguments : Arguments, sdk : SdkResults,
                 out : {NoToolResult}]
  /\ spawned = NotSpawned
  /\ app = NoApp

\* The tool call is dispatched and answered.
Dispatch ==
  /\ pc = "dispatch"
  /\ tcall' = [tcall EXCEPT
                 !.out = IF tcall.path = "call_tool"
                         THEN call_tool(tcall.name, tcall.arguments, tcall.sdk)
                         ELSE run_call_tool(tcall.name, tcall.arguments,
                                            tcall.sdk)]
  /\ pc' = "done"
  /\ UNCHANGED <<kind, all_data, current_cursor, status, req, result, nchecks,
                 sleeps, seen, lastResp, lastObs, nobs, idle, lastCursor,
                 job_id, wire, nposts, inflight>>
  /\ UNCHANGED <<cfgVars, hcall, job, chain, sess, locals, mpscVars, spawned, app>>

NextDispatch == Dispatch

SpecDispatch == InitDispatch /\ [][NextDispatch]_vars

----------------------------------------------------------------------------
(* MpscTransport::new, spawn and the client spawn returns *)

\* The most calls made through the client, and the most messages sent on
\* the sender that new returned.
MaxCalls == 3

\* MCPRequest: the three requests a client can make.
Requests == {"get_info", "list_tools", "call_tool"}

\* mpsc::Sender::send: the message is queued while the channel's receiver
\* is alive, and the send fails once the receiver was dropped.
channel_send(receiver_alive, q, message) ==
  IF receiver_alive THEN [ok |-> TRUE, queue |-> Append(q, message)]
  ELSE [ok |-> FALSE, queue |-> q]

channel_recv_newest(q) ==
  [message |-> q[Len(q)], queue |-> SubSeq(q, 1, Len(q) - 1)]

\* mpsc::Receiver::recv: the oldest message of the channel.
channel_recv(q) == [message |-> Head(q), queue |-> Tail(q)]

\* run holds no message of its channel.
NoRunMessage == [id |-> 0, request |-> ""]

run_result_any(request) ==
  {"ServerInfo", "ListToolsResult", "CallToolResult", "Err"}

\* run, `let result = match request { .. }`: the variants of
\* Result<MCPResponse, RmcpError> each request can be answered with.
run_result(request) ==
  CASE request = "get_info" -> {"ServerInfo"}
    [] request = "list_tools" -> {"ListToolsResult"}
    [] request = "call_tool" -> {"CallToolResult", "Err"}

after_respond_stops(delivered) == IF delivered THEN "waiting" ELSE "stopped"

\* run, `if let Err(e) = response_tx.send(result) { error!(..) }`: the loop
\* goes on to the next recv whether or not the response was delivered.
after_respond(delivered) == "waiting"

\* After MpscTransport::new: the transport holds the receiver rx of the
\* channel, the sender tx is with the caller ("spawn": the caller of new
\* calls spawn; "spawn_mpsc_client": the extension method does).
InitSpawn ==
  /\ kind = "batch"
  /\ pc = "new"
  /\ all_data = <<>>
  /\ current_cursor = None
  /\ status = NoSnapshot
  /\ req = None
  /\ result = NoResult
  /\ nchecks = 0
  /\ sleeps = 0
  /\ seen = <<>>
  /\ lastResp = NoResponse
  /\ lastObs = NoSnapshot
  /\ nobs = 0
  /\ idle = 0
  /\ lastCursor = None
  /\ remote = "free"
  /\ script = <<>>
  /\ api_key = "key"
  /\ idempotency_key = None
  /\ job_id = None
  /\ wire = NoRequest
  /\ nposts = 0
  /\ inflight = 0
  /\ hcall = NoCall
  /\ job = "running"
  /\ chain = 0
  /\ sess = <<>>
  /\ locals = <<>>
  /\ queue = <<>>
  /\ handling = NoMessage
  /\ answered = <<>>
  /\ tcall = NoToolCall
  /\ app = NoApp
  /\ spawned \in [phase : {"new"}, via : {"spawn", "spawn_mpsc_client"},
                   tx_held : {TRUE}, rx : {<<>>}, client_rx_alive : {FALSE},
                   run : {"not started"}, at : {NoRunMessage}, calls : {<<>>},
                   direct : {<<>>}, nsent : {0}, receivers : {{}}]

\* MpscTransport::spawn: a second channel is created and its receiver
\* dropped at once; run is spawned on the receiver of the channel of new;
\* the client gets the sender of the second channel.  spawn_mpsc_client
\* drops the sender of new when it returns.
SpawnTransport ==
  /\ spawned.phase = "new"
  /\ spawned' = [spawned EXCEPT !.phase = "spawned",
                                !.client_rx_alive = FALSE,
                                !.run = "waiting",
                                !.tx_held = (spawned.via = "spawn")]
  /\ pc' = "spawned"
  /\ UNCHANGED <<kind, all_data, current_cursor, status, req, result, nchecks,
                 sleeps, seen, lastResp, lastObs, nobs, idle, lastCursor,
                 job_id, wire, nposts, inflight>>
  /\ UNCHANGED <<cfgVars, hcall, job, chain, sess, locals, mpscVars, tcall, app>>

\* MpscClient::get_info, list_tools, call_tool: self.sender.send(message),
\* "Failed to send request" when the send fails, else the call awaits the
\* response.
ClientCall(request) ==
  /\ spawned.phase = "spawned"
  /\ Len(spawned.calls) < MaxCalls
  /\ LET sent == channel_send(spawned.client_rx_alive, <<>>, request) IN
     spawned' = [spawned EXCEPT
                   !.calls = Append(@,
                     [request |-> request,
                      result |-> IF sent.ok THEN "awaiting response"
                                 ELSE "Failed to send request"])]
  /\ UNCHANGED <<sessionVars, cfgVars, hcall, job, chain, sess, locals,
                 mpscVars, tcall, app>>

\* The caller of new sends a message on the sender new returned: a request
\* and the sender of a fresh oneshot channel, whose receiver the caller
\* keeps.
DirectSend(request) ==
  /\ spawned.phase = "spawned"
  /\ spawned.tx_held
  /\ spawned.nsent < MaxCalls
  /\ LET id == spawned.nsent + 1
         sent == channel_send(spawned.run # "stopped", spawned.rx,
                              [id |-> id, request |-> request])
     IN spawned' = [spawned EXCEPT !.rx = sent.queue, !.nsent = id,
                                   !.receivers = @ \cup {id}]
  /\ UNCHANGED <<sessionVars, cfgVars, hcall, job, chain, sess, locals,
                 mpscVars, tcall, app>>

\* The caller of new drops the sender.
DropSender ==
  /\ spawned.phase = "spawned"
  /\ spawned.tx_held
  /\ spawned' = [spawned EXCEPT !.tx_held = FALSE]
  /\ UNCHANGED <<sessionVars, cfgVars, hcall, job, chain, sess, locals,
                 mpscVars, tcall, app>>

\* run: self.rx.recv() returns the next message.
RunRecv ==
  /\ spawned.run = "waiting"
  /\ spawned.rx # <<>>
  /\ LET got == channel_recv(spawned.rx) IN
     spawned' = [spawned EXCEPT !.run = "handling", !.at = got.message,
                                !.rx = got.queue]
  /\ UNCHANGED <<sessionVars, cfgVars, hcall, job, chain, sess, locals,
                 mpscVars, tcall, app>>

\* run: the request is handled and response_tx.send(result) answers it on
\* the oneshot channel of the message; the send fails when the caller has
\* dropped the receiver.
RunRespond ==
  /\ spawned.run = "handling"
  /\ \E variant \in run_result(spawned.at.request) :
       LET delivered == spawned.at.id \in spawned.receivers IN
       spawned' = [spawned EXCEPT
                     !.run = after_respond(delivered),
                     !.at = NoRunMessage,
                     !.direct = Append(@, [id |-> spawned.at.id,
                                           to |-> spawned.at.id,
                                           request |-> spawned.at.request,
                                           variant |-> variant,
                                           delivered |-> delivered])]
  /\ UNCHANGED <<sessionVars, cfgVars, hcall, job, chain, sess, locals,
                 mpscVars, tcall, app>>

\* run: recv returns None once the channel is empty and every sender of it
\* was dropped; the loop ends.
RunStop ==
  /\ spawned.run = "waiting"
  /\ spawned.rx = <<>>
  /\ ~spawned.tx_held
  /\ spawned' = [spawned EXCEPT !.run = "stopped"]
  /\ UNCHANGED <<sessionVars, cfgVars, hcall, job, chain, sess, locals,
                 mpscVars, tcall, app>>

\* A caller abandons its request: the receiver of its oneshot channel is
\* dropped before the response arrived.
Abandon(id) ==
  /\ spawned.phase = "spawned"
  /\ id \in spawned.receivers
  /\ \A k \in 1..Len(spawned.direct) : spawned.direct[k].id # id
  /\ spawned' = [spawned EXCEPT !.receivers = @ \ {id}]
  /\ UNCHANGED <<sessionVars, cfgVars, hcall, job, chain, sess, locals,
                 mpscVars, tcall, app>>

NextSpawn ==
  \/ SpawnTransport
  \/ \E request \in Requests : ClientCall(request)
  \/ \E request \in Requests : DirectSend(request)
  \/ DropSender
  \/ RunRecv
  \/ RunRespond
  \/ RunStop

SpecSpawn == InitSpawn /\ [][NextSpawn]_vars

\* The run loop with the callers that hold the sender new returned.
NextRun ==
  \/ SpawnTransport
  \/ \E request \in Requests : DirectSend(request)
  \/ \E id \in 1..MaxCalls : Abandon(id)
  \/ DropSender
  \/ RunRecv
  \/ RunRespond
  \/ RunStop

SpecRun == InitSpawn /\ [][NextRun]_vars

\* run is scheduled by the runtime whenever it can take a step, and the
\* handler of every request returns (the SDK call of a tool call ends).
SpecRunFair ==
  SpecRun /\ WF_vars(RunRecv) /\ WF_vars(RunRespond) /\ WF_vars(RunStop)

----------------------------------------------------------------------------
(* FirecrawlApp::new, new_with_client, new_selfhosted *)

CLOUD_API_URL == "https://api.firecrawl.dev"

\* URLs a caller may pass to new_selfhosted: the cloud URL, another spelling
\* of it, and a self-hosted instance.
Urls == {CLOUD_API_URL, "https://api.firecrawl.dev/", "http://localhost:3002"}

new_selfhosted_unchecked(url, key) ==
  [ok |-> TRUE, error |-> "", api_key |-> key, api_url |-> url]

\* FirecrawlApp::new_selfhosted(api_url, api_key)
new_selfhosted(url, key) ==
  IF url = CLOUD_API_URL /\ key = None
  THEN [ok |-> FALSE, error |-> "API key is required for cloud service",
        api_key |-> None, api_url |-> ""]
  ELSE [ok |-> TRUE, error |-> "", api_key |-> key, api_url |-> url]

\* FirecrawlApp::new(api_key), FirecrawlApp::new_with_client(api_key, client)
\* and new_selfhosted.
construct(ctor, url, key) ==
  CASE ctor = "new" -> new_selfhosted(CLOUD_API_URL, key)
    [] ctor = "new_with_client" ->
         [ok |-> TRUE, error |-> "", api_key |-> key,
          api_url |-> CLOUD_API_URL]
    [] ctor = "new_selfhosted" -> new_selfhosted(url, key)

\* A caller is about to construct the app and then to call crawl_url or
\* batch_scrape_urls on it.  new and new_with_client take a key that is not
\* optional.
InitNew ==
  /\ kind \in {"batch", "crawl"}
  /\ pc = "new"
  /\ all_data = <<>>
  /\ current_cursor = None
  /\ status = NoSnapshot
  /\ req = None
  /\ result = NoResult
  /\ nchecks = 0
  /\ sleeps = 0
  /\ seen = <<>>
  /\ lastResp = NoResponse
  /\ lastObs = NoSnapshot
  /\ nobs = 0
  /\ idle = 0
  /\ lastCursor = None
  /\ remote = "small"
  /\ script = <<>>
  /\ api_key = None
  /\ idempotency_key = None
  /\ job_id = None
  /\ wire = NoRequest
  /\ nposts = 0
  /\ inflight = 0
  /\ hcall = NoCall
  /\ job = "running"
  /\ chain = 0
  /\ sess = <<>>
  /\ locals = <<>>
  /\ queue = <<>>
  /\ handling = NoMessage
  /\ answered = <<>>
  /\ tcall = NoToolCall
  /\ spawned = NotSpawned
  /\ \/ app \in [ctor : {"new", "new_with_client"}, url : {""},
                  key : {"key"}, built : {""}, api_url : {""},
                  error : {""}]
     \/ app \in [ctor : {"new_selfhosted"}, url : Urls,
                  key : {None, "key"}, built : {""}, api_url : {""},
                  error : {""}]

\* The constructor returns: Ok(FirecrawlApp { api_key, api_url, client }) or
\* the configuration error.
Construct ==
  /\ pc = "new"
  /\ LET out == construct(app.ctor, app.url, app.key) IN
     /\ app' = [app EXCEPT !.built = IF out.ok THEN "Ok" ELSE "Err",
                           !.api_url = out.api_url,
                           !.error = out.error]
     /\ api_key' = out.api_key
     /\ pc' = IF out.ok THEN "submit" ELSE "done"
  /\ UNCHANGED <<kind, all_data, current_cursor, status, req, result, nchecks,
                 sleeps, seen, lastResp, lastObs, nobs, idle, lastCursor,
                 job_id, wire, nposts, inflight>>
  /\ UNCHANGED <<remote, script, idempotency_key, hcall, job, chain, sess,
                 locals, mpscVars, tcall, spawned>>

NextNew ==
  \/ Construct
  \/ SubmitIssue \/ SubmitReceive
  \/ IssueCheck \/ ReceiveCheck \/ DrainIssue \/ DrainReceive \/ Wake

SpecNew == InitNew /\ [][NextNew]_vars

----------------------------------------------------------------------------
(* The synchronous calls: map_url and search *)

\* The answers to the POST of map_url and search: not sent, or a status
\* code with a body: a JSON object with an optional success flag, an
\* optional list (links or data; Option::None is the empty tuple) and an
\* optional error text, a structured API error, or something else.
SyncResponses ==
  [sent : BOOLEAN, code : {200, 204, 404}, body : {"json", "api_error", "garbage"},
   success : {"true", "false", "absent"},
   list : {<<>>, << <<>> >>, << <<"l1", "l2">> >>},
   error : {"absent", "e1"}]

\* The response type of a synchronous call.
sync_type(call) == IF call = "map_url" THEN "MapResponse" ELSE "SearchResponse"

\* The action text handle_response is given.
sync_action(call) == IF call = "map_url" THEN "map URL" ELSE "search"

\* response.error.unwrap_or_default()
error_text(error) == IF error = "absent" THEN "" ELSE error

sync_call_ignores_flag(call, r) ==
  IF ~r.sent
  THEN Err("HttpError",
           IF call = "map_url" THEN "Mapping" ELSE "Searching for", 0, "")
  ELSE LET out == handle_response(sync_type(call), r, sync_action(call)) IN
       IF ~out.ok THEN out
       ELSE Ok(IF out.snap.list = <<>> THEN <<>> ELSE out.snap.list[1])

\* FirecrawlApp::map_url and FirecrawlApp::search: the POST, handle_response,
\* the check of the success flag (map: `matches!(response.success,
\* Some(false))`, search: `!response.success`), the list or its default.
sync_call(call, r) ==
  IF ~r.sent
  THEN Err("HttpError",
           IF call = "map_url" THEN "Mapping" ELSE "Searching for", 0, "")
  ELSE LET out == handle_response(sync_type(call), r, sync_action(call)) IN
       IF ~out.ok THEN out
       ELSE IF out.snap.success = "false"
       THEN Err("APIError",
                IF call = "map_url" THEN "map request failed"
                                    ELSE "search request failed",
                0, error_text(out.snap.error))
       ELSE Ok(IF out.snap.list = <<>> THEN <<>> ELSE out.snap.list[1])

InitSync ==
  /\ kind = "batch"
  /\ pc = "call"
  /\ all_data = <<>>
  /\ current_cursor = None
  /\ status = NoSnapshot
  /\ req = None
  /\ result = NoResult
  /\ nchecks = 0
  /\ sleeps = 0
  /\ seen = <<>>
  /\ lastResp = NoResponse
  /\ lastObs = NoSnapshot
  /\ nobs = 0
  /\ idle = 0
  /\ lastCursor = None
  /\ remote = "free"
  /\ script = <<>>
  /\ api_key = "key"
  /\ idempotency_key = None
  /\ job_id = None
  /\ wire = NoRequest
  /\ nposts = 0
  /\ inflight = 0
  /\ \E call \in {"map_url", "search"} :  \* `action` names the call
       hcall \in [T : {sync_type(call)}, action : {call},
                  response : SyncResponses, out : {<<>>}]
  /\ job = "running"
  /\ chain = 0
  /\ sess = <<>>
  /\ locals = <<>>
  /\ queue = <<>>
  /\ handling = NoMessage
  /\ answered = <<>>
  /\ tcall = NoToolCall
  /\ spawned = NotSpawned
  /\ app = NoApp

\* The call is made and returns.
SyncCall ==
  /\ pc = "call"
  /\ hcall' = [hcall EXCEPT !.out = sync_call(hcall.action, hcall.response)]
  /\ pc' = "done"
  /\ UNCHANGED <<kind, all_data, current_cursor, status, req, result, nchecks,
                 sleeps, seen, lastResp, lastObs, nobs, idle, lastCursor,
                 job_id, wire, nposts, inflight>>
  /\ UNCHANGED <<cfgVars, job, chain, sess, locals, mpscVars, facadeVars>>

NextSync == SyncCall

SpecSync == InitSync /\ [][NextSync]_vars

----------------------------------------------------------------------------
(* Properties *)

\* The last answer received decoded into a snapshot.
LastDecoded == lastResp # NoResponse /\ check_status_get(kind, req, lastResp).ok

\* The monitor returned.
Returned == pc = "done"

\* C1: a session that ends in success returns exactly the documents of all
\* snapshots received during the session, concatenated in the order in which
\* they were received: nothing dropped, reordered or duplicated.
C1_ResultIsConcatenation ==
  (Returned /\ result.tag = "Ok") => result.data = seen

C1_Witness ==
  /\ Returned /\ result.tag = "Ok"
  /\ kind = "crawl"
  /\ nobs >= 2 /\ nchecks > nobs
  /\ Len(result.data) >= 3

\* C2: after a snapshot that carries a cursor, whatever its status, the
\* session is either about to send the check for that cursor or has it in
\* flight; it is neither sleeping nor returned.
C2_CursorFollowedAtOnce ==
  (LastDecoded /\ lastResp.next # None) =>
     \/ pc = "check" /\ current_cursor = lastResp.next
     \/ pc = "drain" /\ status.next = lastResp.next
     \/ pc \in {"await", "drain_await"} /\ req = lastResp.next

C2_Witness ==
  /\ pc = "await"
  /\ LastDecoded
  /\ lastResp.status \in {"completed", "failed"}
  /\ lastResp.next = "c2"
  /\ req = "c2"
  /\ sleeps = 0

C4_FailedCarriesDocuments ==
  (nobs > 0 /\ lastObs.next = None /\ lastObs.status = "failed") =>
     /\ Returned
     /\ result.tag \in {"CrawlJobFailed", "BatchScrapeJobFailed"}
     /\ result.hasSnap
     /\ result.status = "failed"
     /\ result.data = seen

\* C5: a cursor-less Completed snapshot makes the monitor return that
\* snapshot with its documents replaced by the full accumulator, and once
\* the monitor has returned (success, failure or cancellation) the session
\* sends no further status check.
C5_CompletedReturnsAccumulator ==
  /\ [](( nobs > 0 /\ lastObs.next = None /\ lastObs.status = "completed") =>
          /\ Returned
          /\ result = [tag |-> "Ok", hasSnap |-> TRUE, status |-> "completed",
                       next |-> None, data |-> seen,
                       success |-> lastObs.success])
  /\ [][Returned => (pc' = "done" /\ nchecks' = nchecks /\ result' = result)]_vars

C5_Witness ==
  /\ Returned /\ result.tag = "Ok"
  /\ Len(result.data) > Len(lastObs.data)
  /\ Len(lastObs.data) > 0

\* C6: when two successive cursor-less checks return identical snapshots,
\* folding the second one leaves the accumulator as it was after the first.
C6_IdenticalSnapshotsNotDuplicated ==
  [][(/\ nobs > 0 /\ nobs' = nobs + 1
      /\ lastObs' = lastObs
      /\ lastObs.next = None /\ lastCursor = None /\ req = None)
     => all_data' = all_data]_vars

\* C7: an answer that makes a status check fail ends the session with that
\* very error; the session is returned in every later state (no retry, no
\* sleep, no further check).
C7_CheckErrorEndsSession ==
  (lastResp # NoResponse /\ ~check_status_get(kind, req, lastResp).ok) =>
     /\ Returned
     /\ result.tag = check_status_get(kind, req, lastResp).tag
     /\ ~result.hasSnap

C7_Witness ==
  /\ Returned
  /\ result.tag \in {"HttpError", "APIError", "HttpRequestFailed",
                     "ResponseParseErrorText"}
  /\ nobs >= 1 /\ sleeps >= 1
  /\ Len(all_data) >= 1

NoCursorSuccess ==
  /\ Returned /\ result.tag = "Ok"
  /\ lastCursor = None /\ nchecks = nobs
  /\ nobs >= 2

\* C9 as stated: with N additional "scraping" polls after the first one
\* (N = nobs - 2), the engine sleeps exactly N times.
C9_SleepsN == NoCursorSuccess => sleeps = nobs - 2

\* C9 amended: with N additional "scraping" polls after the first one, the
\* engine sleeps exactly N + 1 times, once per "scraping" poll.
C9_SleepsNPlusOne == NoCursorSuccess => sleeps = nobs - 1

C9_Witness == NoCursorSuccess /\ nobs = 3 /\ sleeps = 2

\* C10: the number of sleeps equals the number of snapshots observed by the
\* loop that carry no cursor and report "scraping".
C10_SleepsCountIdleSnapshots == sleeps = idle

C10_Witness ==
  /\ Returned /\ result.tag = "Ok"
  /\ sleeps = 1
  /\ lastCursor # None
  /\ nobs >= 3


\* C11: for a job whose snapshots carry no cursor and report progress until
\* the final, Completed one, the engine terminates, after exactly as many
\* status checks as there are snapshots, with the concatenation of the
\* snapshots' documents in call order.
C11_ScriptConsumedExactly ==
  /\ [](Returned => /\ nchecks = Len(script)
                    /\ result.tag = "Ok"
                    /\ result.data = ScriptDocs(script))
  /\ <>Returned

C11_Witness ==
  /\ Returned
  /\ Len(script) = 3 /\ nchecks = 3
  /\ script[1].completed < script[3].completed
  /\ Len(result.data) >= 3


\* C13: within one session the status checks are strictly sequential: at
\* most one GET is in flight, and the loop issues its next status check only
\* when no GET is in flight and the documents of every answer received so
\* far are in the accumulator.
C13_ChecksSequential ==
  /\ inflight \in {0, 1}
  /\ (inflight = 1) <=> (pc \in {"await", "drain_await"})
  /\ pc \in {"check", "await", "sleep"} => all_data = seen

C13_Witness ==
  /\ pc = "await" /\ inflight = 1
  /\ nchecks = 3
  /\ Len(all_data) >= 3

\* The last answer was a 2xx status snapshot that decodes and whose body
\* carries success = false.
LastFlaggedFalse ==
  /\ lastResp.sent /\ lastResp.code >= 200 /\ lastResp.code <= 299
  /\ lastResp.body = "snapshot"
  /\ lastResp.status \in StatusTypesOf(kind)
  /\ lastResp.success = "false"

C19_OkHasSuccessTrue ==
  (kind = "batch" /\ pc = "done" /\ result.tag = "Ok") =>
    result.success = "true"


\* C16: a crawl_url / batch_scrape_urls call issues exactly one submit POST,
\* before any status check; the monitor polls the job id that the submit
\* returned and no other; when the submit fails no status check is issued.
C16_SubmitOnceThenPoll ==
  /\ [](/\ nposts <= 1
        /\ nchecks > 0 => (nposts = 1 /\ job_id # None)
        /\ (pc = "check" /\ nchecks = 0) =>
             (lastResp.body = "handle" /\ job_id = lastResp.id)
        /\ (wire.method = "GET" /\ wire.id # None) => wire.id = job_id
        /\ (pc = "done" /\ job_id = None) =>
             (nposts = 1 /\ nchecks = 0 /\ wire.method = "POST"
              /\ result.tag \in {"HttpError", "APIError", "HttpRequestFailed",
                                 "ResponseParseErrorText"})
        /\ pc = "done" => nposts = 1)
  /\ [][job_id # None => job_id' = job_id]_vars

C16_Witness ==
  /\ pc = "done" /\ result.tag = "Ok"
  /\ nposts = 1 /\ nchecks = 3
  /\ job_id = "job-2" /\ wire.id = "job-2"

\* C20: every request carries Content-Type: application/json; it carries
\* Authorization: Bearer <key> if and only if an API key is configured; the
\* x-idempotency-key header is on the submit POST exactly when the caller
\* supplied a key, and never on a status check.
C20_Headers ==
  wire.method # "" =>
    /\ wire.content_type = "application/json"
    /\ api_key # None => wire.authorization = <<"Bearer", api_key>>
    /\ api_key = None => wire.authorization = <<>>
    /\ wire.method = "POST" => wire.idempotency = idempotency_key
    /\ wire.method = "GET" => wire.idempotency = None

C20_Witness ==
  /\ wire.method = "GET"
  /\ api_key = None /\ wire.authorization = <<>>
  /\ idempotency_key = "idem-1" /\ wire.idempotency = None
  /\ nposts = 1 /\ nchecks = 2


\* The body is of the shape of the expected type T.
BodyIsA(T, r) ==
  \/ /\ T = "BatchScrapeStatus"
     /\ r.body = "snapshot" /\ r.status \in {"scraping", "completed", "failed"}
  \/ /\ T = "CrawlStatus"
     /\ r.body = "snapshot"
     /\ r.status \in {"scraping", "completed", "failed", "cancelled"}
  \/ /\ T \in {"BatchScrapeResponse", "CrawlAsyncResponse"}
     /\ r.body = "handle"

\* C17: handle_response returns Ok exactly for a 2xx response whose body
\* deserializes into the expected type; a non-2xx response with a structured
\* error body yields APIError with the action and that error; a non-2xx
\* response with any other body yields HttpRequestFailed with the action and
\* the status code; a 2xx body that does not decode yields the parse error.
C17_Classification ==
  hcall.out # <<>> =>
    LET r == hcall.response
        o == hcall.out
        twoxx == r.code >= 200 /\ r.code < 300
    IN /\ o.ok <=> (twoxx /\ BodyIsA(hcall.T, r))
       /\ ~twoxx => ~o.ok
       /\ (~twoxx /\ r.body = "api_error") =>
            (o.tag = "APIError" /\ o.action = hcall.action
             /\ o.error = r.error)
       /\ (~twoxx /\ r.body # "api_error") =>
            (o.tag = "HttpRequestFailed" /\ o.action = hcall.action
             /\ o.code = r.code)
       /\ (twoxx /\ r.body # "unreadable" /\ ~BodyIsA(hcall.T, r)) =>
            o.tag = "ResponseParseErrorText"
       /\ (twoxx /\ r.body = "unreadable") =>
            (o.tag = "HttpError" /\ o.action = hcall.action)

C17_Witness ==
  /\ hcall.out # <<>>
  /\ hcall.T = "CrawlStatus" /\ BodyIsA(hcall.T, hcall.response)
  /\ hcall.response.code = 300
  /\ hcall.out.tag = "HttpRequestFailed" /\ hcall.out.code = 300


SessionStart ==
  [pc |-> "check", all_data |-> <<>>, current_cursor |-> None,
   result |-> NoResult]

\* C14: concurrent sessions on one FirecrawlApp do not interfere: under
\* every interleaving the accumulator, the cursor and the outcome of each
\* session are those of a session that runs alone and receives the same
\* answers.
C14_SessionsIndependent ==
  \A i \in DOMAIN sess :
    LET alone == run_alone(sess[i].kind, SessionStart, sess[i].answers) IN
    /\ locals[i].all_data = alone.all_data
    /\ locals[i].current_cursor = alone.current_cursor
    /\ sess[i].result = alone.result
    /\ (sess[i].pc = "done") <=> (alone.pc = "done")
    /\ (sess[i].pc = "sleep") => (alone.pc = "sleep")

C14_Witness ==
  /\ DOMAIN sess = Sessions
  /\ sess[1].pc = "await" /\ sess[2].pc = "await"
  /\ Len(sess[1].answers) = 1 /\ Len(sess[2].answers) = 1
  /\ locals[1].current_cursor = "c1" /\ locals[2].current_cursor = None
  /\ locals[1].all_data = <<1>> /\ locals[2].all_data = <<1>>


\* C15: a tool call whose job is still being polled never delays another
\* tool call: no message waits in the channel of MpscTransport::run while
\* run sleeps between two status checks of the call it is processing.
C15_PolledCallDelaysNoOther ==
  (handling # NoMessage /\ pc = "sleep") => queue = <<>>


\* C21: for both job kinds a status check made with a cursor goes to the
\* job's base status endpoint with the cursor appended as a query
\* parameter, and a status check made without cursor goes to the base
\* status endpoint addressed by job id.
C21_CursorIsQueryParameter ==
  wire.method = "GET" =>
    /\ wire.id = job_id
    /\ wire.cursor = req
    /\ (kind = "batch" /\ req = None) =>
         wire.endpoint = "/v1/batch/scrape/{id}"
    /\ (kind = "batch" /\ req # None) =>
         wire.endpoint = "/v1/batch/scrape/{id}?cursor={cursor}"
    /\ (kind = "crawl" /\ req = None) => wire.endpoint = "/v1/crawl/{id}"
    /\ (kind = "crawl" /\ req # None) =>
         wire.endpoint = "/v1/crawl/{id}?cursor={cursor}"

\* C21 (amended): a batch-scrape status check made with a cursor goes to
\* the base status endpoint of the job id with the cursor appended as the
\* query parameter `cursor`; a crawl status check made with a cursor
\* requests the cursor itself, which is the URL the service gave as `next`,
\* and uses neither the base endpoint nor the job id; a status check made
\* without cursor goes to the base status endpoint addressed by job id.
C21_CrawlCursorIsTheUrl ==
  wire.method = "GET" =>
    /\ wire.cursor = req
    /\ (kind = "batch" /\ req = None) =>
         (wire.endpoint = "/v1/batch/scrape/{id}" /\ wire.id = job_id)
    /\ (kind = "batch" /\ req # None) =>
         (wire.endpoint = "/v1/batch/scrape/{id}?cursor={cursor}"
          /\ wire.id = job_id)
    /\ (kind = "crawl" /\ req = None) =>
         (wire.endpoint = "/v1/crawl/{id}" /\ wire.id = job_id)
    /\ (kind = "crawl" /\ req # None) =>
         (wire.endpoint = "{next}" /\ wire.id = None)

C21_Witness ==
  /\ kind = "crawl" /\ pc = "await"
  /\ nchecks = 2
  /\ wire.method = "GET" /\ wire.endpoint = "{next}" /\ wire.cursor = "c2"

\* C22: every call of check_crawl_status and of check_batch_scrape_status
\* issues exactly one GET, whatever the response contains: the GETs issued
\* are one per status check handed to the loop, plus the one of the check
\* in progress or failed.
C22_OneGetPerCheck ==
  /\ nchecks <= nobs + 1
  /\ pc \in {"check", "sleep"} => nchecks = nobs


\* The tool call was dispatched.
Dispatched == pc = "done" /\ tcall.path # ""

\* C23: a tool call whose operation name is not a registered tool fails with
\* a not-found error that names the requested operation, on both dispatch
\* paths, and makes no call to the SDK.
C23_UnknownToolNotFound ==
  (Dispatched /\ tcall.name \notin ToolNames) =>
    /\ tcall.out.kind = "Err"
    /\ tcall.out.code = "invalid_request"
    /\ tcall.out.message = <<"Tool not found: ", tcall.name>>
    /\ ~tcall.out.called

\* C24: a tool call without parameters object is answered with a caller
\* error on both dispatch paths: the handler does not abort and no
\* controller is given an empty object in its place.
C24_MissingArgumentsIsCallerError ==
  (Dispatched /\ ~tcall.arguments.present) =>
    /\ tcall.out.kind = "Err"
    /\ tcall.out.code \in {"invalid_params", "invalid_request"}
    /\ tcall.out.input # EmptyObject

\* C25: every error the SDK returns during a tool call makes the tool call
\* fail, on both dispatch paths.
C25_SdkErrorFailsToolCall ==
  (Dispatched /\ tcall.out.called /\ ~tcall.sdk.ok) =>
    (tcall.out.kind = "Err" /\ tcall.out.text = <<>>)

C25_Witness ==
  /\ Dispatched /\ tcall.path = "run"
  /\ tcall.name = "firecrawl_crawl"
  /\ tcall.sdk.message = "job cancelled"
  /\ tcall.out.called /\ tcall.out.kind = "Err"

\* C26: for every tool the failure text of a tool call that failed in the
\* SDK is the SDK error's message unchanged.
C26_FailureTextVerbatim ==
  (Dispatched /\ tcall.out.called /\ ~tcall.sdk.ok) =>
    tcall.out.message = <<tcall.sdk.message>>

C28_WebhookDefaulting ==
  (Dispatched /\ tcall.out.called) =>
    /\ tcall.name = "firecrawl_crawl" =>
         /\ (tcall.out.args.webhook = <<"dummy">>)
              <=> (tcall.arguments.webhook = <<>>)
         /\ tcall.arguments.webhook # <<>> =>
              tcall.out.args.webhook = tcall.arguments.webhook
    /\ tcall.name = "firecrawl_batch_scrape" => tcall.out.args.webhook = <<>>

C28_Witness ==
  /\ Dispatched /\ tcall.out.called
  /\ tcall.name = "firecrawl_crawl"
  /\ tcall.arguments.webhook = <<"hook-1">>
  /\ tcall.out.args.webhook = <<"hook-1">>

RECURSIVE SplitLines(_)
\* The lines of a text.
SplitLines(text) ==
  IF text = <<>> THEN << <<>> >>
  ELSE LET rest == SplitLines(Tail(text)) IN
       IF Head(text) = "\n" THEN << <<>> >> \o rest
       ELSE << <<Head(text)>> \o Head(rest) >> \o Tail(rest)

\* The lines at which a record (a run of non-blank lines) starts.
RecordStarts(lines) ==
  {i \in 1..Len(lines) : lines[i] # <<>> /\ (i = 1 \/ lines[i - 1] = <<>>)}

\* The pieces "d1", "d2" of a text, in order.
Mentions(text) == SelectSeq(text, LAMBDA piece : piece \in {"d1", "d2"})

RECURSIVE Thrice(_)
\* Every document, named in the three fields of its record.
Thrice(docs) ==
  IF docs = <<>> THEN <<>>
  ELSE <<Head(docs), Head(docs), Head(docs)>> \o Thrice(Tail(docs))

\* C29: the text block of the crawl, batch_scrape and search tools has
\* exactly one record per document or result, in result order, and
\* consecutive records are separated by exactly one blank line.
C29_OneRecordPerDocument ==
  (Dispatched /\ tcall.out.kind = "Ok"
   /\ tcall.name \in {"firecrawl_crawl", "firecrawl_batch_scrape",
                      "firecrawl_search"}) =>
    LET lines == SplitLines(tcall.out.text)
        starts == RecordStarts(lines)
    IN /\ Cardinality(starts) = Len(tcall.sdk.docs)
       /\ Mentions(tcall.out.text) = Thrice(tcall.sdk.docs)
       /\ \A i \in starts :
            i > 2 => (lines[i - 1] = <<>> /\ lines[i - 2] # <<>>)


\* C30: the client returned by MpscTransport::spawn (or spawn_mpsc_client)
\* is connected to the spawned task: no call made through it fails with
\* "Failed to send request" or "Failed to receive response".
C30_ClientReachesRun ==
  spawned.phase = "spawned" =>
    \A i \in 1..Len(spawned.calls) :
      spawned.calls[i].result \notin
        {"Failed to send request", "Failed to receive response"}

\* C31: within one polling session no continuation cursor is used for more
\* than one status check: every check the loop sends with a cursor uses the
\* cursor the answer just before it handed out, also after a poll-interval
\* wait that follows pagination.
C31_NoCursorUsedTwice ==
  [][(pc = "check" /\ pc' = "await" /\ req' # None)
     => (LastDecoded /\ lastResp.next = req')]_vars

\* C32: check_crawl_status(id) returns a first page that is not Completed
\* unchanged (its next kept) after a single request; for a Completed first
\* page it follows next until a page without next, and returns status
\* Completed with next empty and the data of the first page and of every
\* followed page concatenated in page order; an error while following a page
\* fails the whole call (no snapshot is returned).
C32_CheckCrawlStatus ==
  /\ [][(kind = "crawl" /\ pc = "await" /\ req = None /\ LastDecoded'
         /\ lastResp'.status # "completed") =>
          /\ nobs' = nobs + 1 /\ nchecks' = nchecks
          /\ lastObs'.status = lastResp'.status
          /\ lastObs'.next = lastResp'.next
          /\ lastObs'.data = lastResp'.data]_vars
  /\ [][(kind = "crawl" /\ pc = "await" /\ req = None /\ LastDecoded'
         /\ lastResp'.status = "completed") =>
          IF lastResp'.next = None
          THEN /\ nobs' = nobs + 1
               /\ lastObs'.status = "completed" /\ lastObs'.next = None
               /\ lastObs'.data = lastResp'.data
          ELSE /\ nobs' = nobs /\ pc' = "drain"
               /\ status'.status = "completed"
               /\ status'.next = lastResp'.next
               /\ status'.data = lastResp'.data]_vars
  /\ [][(pc = "drain_await" /\ LastDecoded') =>
          IF lastResp'.next = None
          THEN /\ nobs' = nobs + 1
               /\ lastObs'.status = "completed" /\ lastObs'.next = None
               /\ lastObs'.data = status.data \o lastResp'.data
          ELSE /\ nobs' = nobs /\ pc' = "drain"
               /\ status'.status = "completed"
               /\ status'.next = lastResp'.next
               /\ status'.data = status.data \o lastResp'.data]_vars
  /\ [][(pc = "drain_await" /\ lastResp' # NoResponse /\ ~LastDecoded') =>
          /\ Returned' /\ nobs' = nobs
          /\ ~result'.hasSnap
          /\ result'.tag = check_status_get(kind, req, lastResp').tag]_vars

C32_Witness ==
  /\ kind = "crawl" /\ nobs = 1 /\ nchecks = 3
  /\ lastObs.status = "completed" /\ lastObs.next = None
  /\ lastObs.data = <<1, 2, 1, 1, 2>>

\* The response to message i was sent.
Answered(i) == \E k \in 1..Len(spawned.direct) : spawned.direct[k].id = i

\* C33: MpscTransport::run answers every message it has received exactly
\* once, on that message's own response channel, with the variant matching
\* the request: GetInfo -> ServerInfo, ListTools -> ListToolsResult,
\* CallTool -> CallToolResult or an error.
C33_AnsweredOnceOnOwnChannel ==
  spawned.phase = "spawned" =>
    LET d == spawned.direct IN
    /\ \A k \in 1..Len(d) :
         /\ d[k].to = d[k].id
         /\ d[k].request = "get_info" => d[k].variant = "ServerInfo"
         /\ d[k].request = "list_tools" => d[k].variant = "ListToolsResult"
         /\ d[k].request = "call_tool" =>
              d[k].variant \in {"CallToolResult", "Err"}
         /\ \A l \in 1..Len(d) : d[l].id = d[k].id => l = k
    /\ \A i \in 1..spawned.nsent :
         \/ \E j \in 1..Len(spawned.rx) : spawned.rx[j].id = i
         \/ spawned.at.id = i
         \/ Answered(i)

C33_Witness ==
  /\ Len(spawned.direct) = 3
  /\ spawned.direct[1].request = "call_tool"
  /\ spawned.direct[1].variant = "Err"
  /\ spawned.direct[2].request = "get_info"
  /\ spawned.direct[3].request = "list_tools"
  /\ \A k \in 1..3 : spawned.direct[k].delivered

\* C34: MpscTransport::run handles requests one at a time in the order they
\* were enqueued: responses are produced in request order, and no message
\* is taken from the channel while the response to another is outstanding.
C34_OneAtATimeInOrder ==
  /\ [](spawned.phase = "spawned" =>
          LET d == spawned.direct
              busy == IF spawned.run = "handling" THEN 1 ELSE 0
          IN /\ \A k \in 1..Len(d) : d[k].id = k
             /\ spawned.run = "handling" => spawned.at.id = Len(d) + 1
             /\ \A j \in 1..Len(spawned.rx) :
                  spawned.rx[j].id = Len(d) + busy + j)
  /\ [][(spawned.phase = "spawned" /\ spawned'.at # NoRunMessage
         /\ spawned'.at # spawned.at)
        => (spawned.run = "waiting" /\ spawned.at = NoRunMessage)]_vars

C34_Witness ==
  /\ Len(spawned.direct) = 1
  /\ spawned.run = "handling" /\ spawned.at.id = 2
  /\ Len(spawned.rx) = 1 /\ spawned.rx[1].id = 3

\* C35: a caller that abandons a request does not stop MpscTransport::run:
\* run returns only once every sender is dropped and the queue is drained,
\* with every message answered, and every message sent is eventually
\* answered, whether or not an earlier response could be delivered.
C35_AbandonDoesNotStopRun ==
  /\ [](spawned.phase = "spawned" /\ spawned.run = "stopped" =>
          /\ ~spawned.tx_held
          /\ spawned.rx = <<>>
          /\ \A i \in 1..spawned.nsent : Answered(i))
  /\ \A i \in 1..MaxCalls : (spawned.nsent >= i) ~> Answered(i)

C35_Witness ==
  /\ Len(spawned.direct) = 3
  /\ ~spawned.direct[1].delivered
  /\ spawned.direct[2].delivered
  /\ ~spawned.direct[3].delivered
  /\ spawned.run = "stopped"

\* C36: new_selfhosted fails with "API key is required for cloud service"
\* exactly when the URL is the cloud URL and no key is given, new and
\* new_with_client always store a key and the cloud URL; every app that was
\* built and has the cloud URL has an API key, and every request it sends
\* carries the Authorization header with that key.
C36_CloudAppHasKey ==
  /\ app.built # "" =>
       /\ (app.built = "Err") <=>
            (app.ctor = "new_selfhosted" /\ app.url = CLOUD_API_URL
             /\ app.key = None)
       /\ app.built = "Err" =>
            app.error = "API key is required for cloud service"
  /\ (app.built = "Ok" /\ app.ctor \in {"new", "new_with_client"}) =>
       (api_key = app.key /\ api_key # None /\ app.api_url = CLOUD_API_URL)
  /\ (app.built = "Ok" /\ app.ctor = "new_selfhosted") =>
       (api_key = app.key /\ app.api_url = app.url)
  /\ (app.built = "Ok" /\ app.api_url = CLOUD_API_URL) =>
       /\ api_key # None
       /\ wire.method # "" => wire.authorization = <<"Bearer", api_key>>
  /\ app.built # "Ok" => (wire = NoRequest /\ nposts = 0 /\ nchecks = 0)

C36_Witness ==
  /\ app.built = "Ok" /\ app.ctor = "new_selfhosted"
  /\ app.api_url = CLOUD_API_URL
  /\ wire.method = "GET"
  /\ wire.authorization = <<"Bearer", "key">>

\* C37: for map_url and search a 2xx response whose body carries
\* success = false becomes an APIError with the body's error text and never
\* an Ok result; with success true (or, for map_url, absent) the call returns
\* the list of the body, or the empty list when the body has none.
C37_SuccessFlagOfSyncCalls ==
  (pc = "done" /\ hcall.T \in {"MapResponse", "SearchResponse"}
   /\ hcall.response.sent /\ is_success(hcall.response.code)
   /\ hcall.response.body = "json") =>
    LET r == hcall.response
        o == hcall.out
    IN /\ r.success = "false" =>
            /\ ~o.ok /\ o.tag = "APIError"
            /\ o.error = (IF r.error = "absent" THEN "" ELSE r.error)
       /\ (r.success = "true"
           \/ (r.success = "absent" /\ hcall.T = "MapResponse")) =>
            /\ o.ok
            /\ r.list = <<>> => o.snap = <<>>
            /\ r.list # <<>> => o.snap = r.list[1]
       /\ o.ok => r.success # "false"

C37_Witness ==
  /\ pc = "done" /\ hcall.T = "SearchResponse"
  /\ hcall.response.code = 200 /\ hcall.response.body = "json"
  /\ hcall.response.success = "false" /\ hcall.response.error = "e1"
  /\ hcall.response.list # <<>>
  /\ hcall.out.tag = "APIError" /\ hcall.out.error = "e1"

====
